---- MODULE Spec2Model ----
(***************************************************************************)
(* AVL tree of src/scr/avl_tree.py.  The heap maps a node identity (a      *)
(* positive integer) to the five fields of the Node dataclass; None is 0.  *)
(* Every method of AVLTree is an operator over a tree record               *)
(*   [root, size, heap, err, walk]                                         *)
(* where err records an exception raised inside the method and walk is    *)
(* the list of nodes visited by the last __balance loop.  A method body    *)
(* is written statement by statement: each local operator takes the        *)
(* values the statements before it produced and runs the rest.             *)
(***************************************************************************)
EXTENDS Integers, Sequences, FiniteSets, TLC

\* Keys offered to insert/remove/find are 1..MaxKey.
MaxKey == 4

Keys == 1..MaxKey

\* Calls made on the seeded tree of SpecDeep.
MaxOps == 3

\* Level order of a 12-key tree of height 4 with the fewest nodes: every
\* insert attaches a leaf without unbalancing any ancestor.
SeedKeys == <<8, 5, 10, 3, 7, 9, 12, 2, 4, 6, 11, 1>>

DeepKeys == 1..(Len(SeedKeys) + 1)

None == 0

VARIABLES root, size, heap, err, walk, lastOp, lastKey, lastRes, lastNode,
          lastCase, members, ops, script

vars == <<root, size, heap, err, walk, lastOp, lastKey, lastRes, lastNode,
         lastCase, members, ops, script>>

Max(a, b) == IF a >= b THEN a ELSE b

----------------------------------------------------------------------------
\* class Node

Node(value) ==
    [value |-> value, parent |-> None, left |-> None, right |-> None,
     height |-> 0]

balance_factor(h, n) ==
    LET right_child_height == IF h[n].right = None THEN -1
                              ELSE h[h[n].right].height
        left_child_height == IF h[n].left = None THEN -1
                             ELSE h[h[n].left].height
    IN  right_child_height - left_child_height

\* Object allocation: the new object takes the lowest identity not in use.
NewId(h) ==
    CHOOSE i \in 1..(Cardinality(DOMAIN h) + 1) :
        /\ i \notin DOMAIN h
        /\ \A j \in 1..(i - 1) : j \in DOMAIN h

\* __create_node_from_value for an int argument: a fresh Node(value).
create_node_from_value(t, value) ==
    LET construct(n) ==
            [t |-> [t EXCEPT !.heap = (n :> Node(value)) @@ t.heap],
             node |-> n]
    IN  construct(NewId(t.heap))

----------------------------------------------------------------------------
\* __search_node: the loop started at `current`, looking for heap[node].value

\* search_loop descending to the wrong side
RECURSIVE search_loop_flipped(_, _, _)
search_loop_flipped(h, current, node) ==
    IF current = None
    THEN [searched_node |-> None, insert_place |-> None]
    ELSE IF h[current].value = h[node].value
    THEN [searched_node |-> current, insert_place |-> None]
    ELSE LET next_node == IF h[node].value > h[current].value
                          THEN h[current].left ELSE h[current].right
         IN  IF next_node = None
             THEN [searched_node |-> None, insert_place |-> current]
             ELSE search_loop_flipped(h, next_node, node)

RECURSIVE search_loop(_, _, _)
search_loop(h, current, node) ==
    IF current = None
    THEN [searched_node |-> None, insert_place |-> None]
    ELSE IF h[current].value = h[node].value
    THEN [searched_node |-> current, insert_place |-> None]
    ELSE LET next_node == IF h[node].value < h[current].value
                          THEN h[current].left ELSE h[current].right
         IN  IF next_node = None
             THEN [searched_node |-> None, insert_place |-> current]
             ELSE search_loop(h, next_node, node)

search_node(t, node) == search_loop(t.heap, t.root, node)

is_found(search_result) == search_result.searched_node # None

----------------------------------------------------------------------------
\* __bst_insert

\* bst_insert attaching the new node on the wrong side of its parent
bst_insert_flipped(t, node) ==
    LET attach(h, parent) ==
            IF parent = None
            THEN [t EXCEPT !.root = node]
            ELSE IF h[node].value > h[parent].value
            THEN [t EXCEPT !.heap = [h EXCEPT ![node].parent = parent,
                                              ![parent].left = node]]
            ELSE [t EXCEPT !.heap = [h EXCEPT ![node].parent = parent,
                                              ![parent].right = node]]
        count(t1) == [t |-> [t1 EXCEPT !.size = @ + 1], ret |-> TRUE]
        searched(search_result) ==
            IF is_found(search_result)
            THEN [t |-> t, ret |-> FALSE]
            ELSE count(attach(t.heap, search_result.insert_place))
    IN  searched(search_node(t, node))

\* bst_insert counting the node before it knows the key is new
bst_insert_counts_first(t, node) ==
    LET attach(h, parent) ==
            IF parent = None
            THEN [t EXCEPT !.root = node]
            ELSE IF h[node].value < h[parent].value
            THEN [t EXCEPT !.heap = [h EXCEPT ![node].parent = parent,
                                              ![parent].left = node]]
            ELSE [t EXCEPT !.heap = [h EXCEPT ![node].parent = parent,
                                              ![parent].right = node]]
        count(t1) == [t |-> [t1 EXCEPT !.size = @ + 1], ret |-> TRUE]
        searched(search_result) ==
            IF is_found(search_result)
            THEN [t |-> [t EXCEPT !.size = @ + 1], ret |-> FALSE]
            ELSE count(attach(t.heap, search_result.insert_place))
    IN  searched(search_node(t, node))

bst_insert(t, node) ==
    LET \* node.parent = parent; parent.left = node / parent.right = node
        attach(h, parent) ==
            IF parent = None
            THEN [t EXCEPT !.root = node]
            ELSE IF h[node].value < h[parent].value
            THEN [t EXCEPT !.heap = [h EXCEPT ![node].parent = parent,
                                              ![parent].left = node]]
            ELSE [t EXCEPT !.heap = [h EXCEPT ![node].parent = parent,
                                              ![parent].right = node]]
        \* self.__size += 1; return True
        count(t1) == [t |-> [t1 EXCEPT !.size = @ + 1], ret |-> TRUE]
        searched(search_result) ==
            IF is_found(search_result)
            THEN [t |-> t, ret |-> FALSE]
            ELSE count(attach(t.heap, search_result.insert_place))
    IN  searched(search_node(t, node))

----------------------------------------------------------------------------
\* __update_height

\* update_height forgetting to count the node itself
update_height_flat(h, node) ==
    LET left_height == IF h[node].left # None THEN h[h[node].left].height
                       ELSE -1
        right_height == IF h[node].right # None THEN h[h[node].right].height
                        ELSE -1
    IN  [h EXCEPT ![node].height = Max(left_height, right_height)]

update_height(h, node) ==
    LET left_height == IF h[node].left # None THEN h[h[node].left].height
                       ELSE -1
        right_height == IF h[node].right # None THEN h[h[node].right].height
                        ELSE -1
    IN  [h EXCEPT ![node].height = Max(left_height, right_height) + 1]

----------------------------------------------------------------------------
\* __rotate_right

\* rotate_right that leaves the transferred grandchild with its old parent
rotate_right_no_reparent(t, node) ==
    LET heights(t6, left_child) ==
            [t6 EXCEPT !.heap =
                update_height(update_height(t6.heap, node), left_child)]
        link(h5, left_child, p) ==
            IF p = None
            THEN [t EXCEPT !.root = left_child, !.heap = h5]
            ELSE IF h5[p].left = node
            THEN [t EXCEPT !.heap = [h5 EXCEPT ![p].left = left_child]]
            ELSE [t EXCEPT !.heap = [h5 EXCEPT ![p].right = left_child]]
        linked(h5, left_child) ==
            heights(link(h5, left_child, h5[left_child].parent), left_child)
        parents(h2, left_child, right_grandchild) ==
            linked([h2 EXCEPT ![left_child].parent = h2[node].parent,
                              ![node].parent = left_child],
                   left_child)
        perform(h, left_child, right_grandchild) ==
            parents([h EXCEPT ![left_child].right = node,
                              ![node].left = right_grandchild],
                    left_child, right_grandchild)
        checked(h, left_child) ==
            IF left_child = None
            THEN [t EXCEPT !.err = "TypeError"]
            ELSE perform(h, left_child, h[left_child].right)
    IN  checked(t.heap, t.heap[node].left)

\* rotate_right recomputing the promoted child's height before the demoted
\* node's
rotate_right_promoted_first(t, node) ==
    LET \* self.__update_height(node); self.__update_height(left_child)
        heights(t6, left_child) ==
            [t6 EXCEPT !.heap =
                update_height(update_height(t6.heap, left_child), node)]
        link(h5, left_child, p) ==
            IF p = None
            THEN [t EXCEPT !.root = left_child, !.heap = h5]
            ELSE IF h5[p].left = node
            THEN [t EXCEPT !.heap = [h5 EXCEPT ![p].left = left_child]]
            ELSE [t EXCEPT !.heap = [h5 EXCEPT ![p].right = left_child]]
        linked(h5, left_child) ==
            heights(link(h5, left_child, h5[left_child].parent), left_child)
        grandchild(h4, left_child, right_grandchild) ==
            linked(IF right_grandchild # None
                   THEN [h4 EXCEPT ![right_grandchild].parent = node]
                   ELSE h4,
                   left_child)
        parents(h2, left_child, right_grandchild) ==
            grandchild([h2 EXCEPT ![left_child].parent = h2[node].parent,
                                  ![node].parent = left_child],
                       left_child, right_grandchild)
        perform(h, left_child, right_grandchild) ==
            parents([h EXCEPT ![left_child].right = node,
                              ![node].left = right_grandchild],
                    left_child, right_grandchild)
        checked(h, left_child) ==
            IF left_child = None
            THEN [t EXCEPT !.err = "TypeError"]
            ELSE perform(h, left_child, h[left_child].right)
    IN  checked(t.heap, t.heap[node].left)

rotate_right(t, node) ==
    LET \* self.__update_height(node); self.__update_height(left_child)
        heights(t6, left_child) ==
            [t6 EXCEPT !.heap =
                update_height(update_height(t6.heap, node), left_child)]
        \* if left_child.parent is None: ... elif ... is node: ... else: ...
        link(h5, left_child, p) ==
            IF p = None
            THEN [t EXCEPT !.root = left_child, !.heap = h5]
            ELSE IF h5[p].left = node
            THEN [t EXCEPT !.heap = [h5 EXCEPT ![p].left = left_child]]
            ELSE [t EXCEPT !.heap = [h5 EXCEPT ![p].right = left_child]]
        linked(h5, left_child) ==
            heights(link(h5, left_child, h5[left_child].parent), left_child)
        \* if right_grandchild is not None: right_grandchild.parent = node
        grandchild(h4, left_child, right_grandchild) ==
            linked(IF right_grandchild # None
                   THEN [h4 EXCEPT ![right_grandchild].parent = node]
                   ELSE h4,
                   left_child)
        \* left_child.parent = node.parent; node.parent = left_child
        parents(h2, left_child, right_grandchild) ==
            grandchild([h2 EXCEPT ![left_child].parent = h2[node].parent,
                                  ![node].parent = left_child],
                       left_child, right_grandchild)
        \* left_child.right = node; node.left = right_grandchild
        perform(h, left_child, right_grandchild) ==
            parents([h EXCEPT ![left_child].right = node,
                              ![node].left = right_grandchild],
                    left_child, right_grandchild)
        checked(h, left_child) ==
            IF left_child = None
            THEN [t EXCEPT !.err = "TypeError"]
            ELSE perform(h, left_child, h[left_child].right)
    IN  checked(t.heap, t.heap[node].left)

\* __rotate_left

\* rotate_left that does not make the promoted child the root when the
\* rotated node was the root
rotate_left_no_root(t, node) ==
    LET heights(t6, right_child) ==
            [t6 EXCEPT !.heap =
                update_height(update_height(t6.heap, node), right_child)]
        link(h5, right_child, p) ==
            IF p = None
            THEN [t EXCEPT !.heap = h5]
            ELSE IF h5[p].left = node
            THEN [t EXCEPT !.heap = [h5 EXCEPT ![p].left = right_child]]
            ELSE [t EXCEPT !.heap = [h5 EXCEPT ![p].right = right_child]]
        linked(h5, right_child) ==
            heights(link(h5, right_child, h5[right_child].parent), right_child)
        grandchild(h4, right_child, left_grandchild) ==
            linked(IF left_grandchild # None
                   THEN [h4 EXCEPT ![left_grandchild].parent = node]
                   ELSE h4,
                   right_child)
        parents(h2, right_child, left_grandchild) ==
            grandchild([h2 EXCEPT ![right_child].parent = h2[node].parent,
                                  ![node].parent = right_child],
                       right_child, left_grandchild)
        perform(h, right_child, left_grandchild) ==
            parents([h EXCEPT ![right_child].left = node,
                              ![node].right = left_grandchild],
                    right_child, left_grandchild)
        checked(h, right_child) ==
            IF right_child = None
            THEN [t EXCEPT !.err = "TypeError"]
            ELSE perform(h, right_child, h[right_child].left)
    IN  checked(t.heap, t.heap[node].right)

rotate_left(t, node) ==
    LET \* self.__update_height(node); self.__update_height(right_child)
        heights(t6, right_child) ==
            [t6 EXCEPT !.heap =
                update_height(update_height(t6.heap, node), right_child)]
        \* if right_child.parent is None: ... elif ... is node: ... else: ...
        link(h5, right_child, p) ==
            IF p = None
            THEN [t EXCEPT !.root = right_child, !.heap = h5]
            ELSE IF h5[p].left = node
            THEN [t EXCEPT !.heap = [h5 EXCEPT ![p].left = right_child]]
            ELSE [t EXCEPT !.heap = [h5 EXCEPT ![p].right = right_child]]
        linked(h5, right_child) ==
            heights(link(h5, right_child, h5[right_child].parent), right_child)
        \* if left_grandchild is not None: left_grandchild.parent = node
        grandchild(h4, right_child, left_grandchild) ==
            linked(IF left_grandchild # None
                   THEN [h4 EXCEPT ![left_grandchild].parent = node]
                   ELSE h4,
                   right_child)
        \* right_child.parent = node.parent; node.parent = right_child
        parents(h2, right_child, left_grandchild) ==
            grandchild([h2 EXCEPT ![right_child].parent = h2[node].parent,
                                  ![node].parent = right_child],
                       right_child, left_grandchild)
        \* right_child.left = node; node.right = left_grandchild
        perform(h, right_child, left_grandchild) ==
            parents([h EXCEPT ![right_child].left = node,
                              ![node].right = left_grandchild],
                    right_child, left_grandchild)
        checked(h, right_child) ==
            IF right_child = None
            THEN [t EXCEPT !.err = "TypeError"]
            ELSE perform(h, right_child, h[right_child].left)
    IN  checked(t.heap, t.heap[node].right)

----------------------------------------------------------------------------
\* __balance: one iteration of the while loop at `current`, then the rest.
\* Each iteration appends to walk the node visited, the balance factor read
\* after the height update, whether current was rotated, whether its child
\* was rotated first, and the grandchild subtree the rotation of current
\* handed to current (None if there was none).

\* the subtree the rotation of current is about to hand to current
Handed(h, current, bf) ==
    IF bf < -1 /\ h[current].left # None THEN h[h[current].left].right
    ELSE IF bf > 1 /\ h[current].right # None THEN h[h[current].right].left
    ELSE None

\* the walk rotating to the right as soon as a node leans left at all
balance_step_eager(t, current) ==
    LET record(t2, bf, pre, moved) ==
            [t2 EXCEPT !.walk = Append(@, [node |-> current, bf |-> bf,
                                           rotated |-> (bf < 0 \/ bf > 1),
                                           double |-> pre, moved |-> moved])]
        rotate_current(ta, bf, pre) ==
            record(IF ta.err # "none" THEN ta
                   ELSE IF bf < 0 THEN rotate_right(ta, current)
                   ELSE IF bf > 1 THEN rotate_left(ta, current)
                   ELSE ta,
                   bf, pre, Handed(ta.heap, current, bf))
        rotate_child(t1, bf, pre) ==
            rotate_current(IF bf < 0 /\ pre
                           THEN rotate_left(t1, t1.heap[current].left)
                           ELSE IF bf > 1 /\ pre
                           THEN rotate_right(t1, t1.heap[current].right)
                           ELSE t1,
                           bf, pre)
        inspect_child(t1, bf, l, r) ==
            rotate_child(t1, bf,
                IF bf < 0 THEN l # None /\ balance_factor(t1.heap, l) > 0
                ELSE IF bf > 1 THEN r # None /\ balance_factor(t1.heap, r) < 0
                ELSE FALSE)
        measure(t1) ==
            inspect_child(t1, balance_factor(t1.heap, current),
                          t1.heap[current].left, t1.heap[current].right)
    IN  measure([t EXCEPT !.heap = update_height(t.heap, current)])

\* the walk rotating the child first also when the child leans to neither side
balance_step_tie_double(t, current) ==
    LET record(t2, bf, pre, moved) ==
            [t2 EXCEPT !.walk = Append(@, [node |-> current, bf |-> bf,
                                           rotated |-> (bf < -1 \/ bf > 1),
                                           double |-> pre, moved |-> moved])]
        rotate_current(ta, bf, pre) ==
            record(IF ta.err # "none" THEN ta
                   ELSE IF bf < -1 THEN rotate_right(ta, current)
                   ELSE IF bf > 1 THEN rotate_left(ta, current)
                   ELSE ta,
                   bf, pre, Handed(ta.heap, current, bf))
        rotate_child(t1, bf, pre) ==
            rotate_current(IF bf < -1 /\ pre
                           THEN rotate_left(t1, t1.heap[current].left)
                           ELSE IF bf > 1 /\ pre
                           THEN rotate_right(t1, t1.heap[current].right)
                           ELSE t1,
                           bf, pre)
        inspect_child(t1, bf, l, r) ==
            rotate_child(t1, bf,
                IF bf < -1 THEN l # None /\ balance_factor(t1.heap, l) >= 0
                ELSE IF bf > 1 THEN r # None /\ balance_factor(t1.heap, r) <= 0
                ELSE FALSE)
        measure(t1) ==
            inspect_child(t1, balance_factor(t1.heap, current),
                          t1.heap[current].left, t1.heap[current].right)
    IN  measure([t EXCEPT !.heap = update_height(t.heap, current)])

\* the walk rotating to the right only when the node leans left by more
\* than two
balance_step_late(t, current) ==
    LET record(t2, bf, pre, moved) ==
            [t2 EXCEPT !.walk = Append(@, [node |-> current, bf |-> bf,
                                           rotated |-> (bf < -2 \/ bf > 1),
                                           double |-> pre, moved |-> moved])]
        rotate_current(ta, bf, pre) ==
            record(IF ta.err # "none" THEN ta
                   ELSE IF bf < -2 THEN rotate_right(ta, current)
                   ELSE IF bf > 1 THEN rotate_left(ta, current)
                   ELSE ta,
                   bf, pre, Handed(ta.heap, current, bf))
        rotate_child(t1, bf, pre) ==
            rotate_current(IF bf < -2 /\ pre
                           THEN rotate_left(t1, t1.heap[current].left)
                           ELSE IF bf > 1 /\ pre
                           THEN rotate_right(t1, t1.heap[current].right)
                           ELSE t1,
                           bf, pre)
        inspect_child(t1, bf, l, r) ==
            rotate_child(t1, bf,
                IF bf < -2 THEN l # None /\ balance_factor(t1.heap, l) > 0
                ELSE IF bf > 1 THEN r # None /\ balance_factor(t1.heap, r) < 0
                ELSE FALSE)
        measure(t1) ==
            inspect_child(t1, balance_factor(t1.heap, current),
                          t1.heap[current].left, t1.heap[current].right)
    IN  measure([t EXCEPT !.heap = update_height(t.heap, current)])

balance_step(t, current) ==
    LET record(t2, bf, pre, moved) ==
            [t2 EXCEPT !.walk = Append(@, [node |-> current, bf |-> bf,
                                           rotated |-> (bf < -1 \/ bf > 1),
                                           double |-> pre, moved |-> moved])]
        \* self.__rotate_right(current) / self.__rotate_left(current)
        rotate_current(ta, bf, pre) ==
            record(IF ta.err # "none" THEN ta
                   ELSE IF bf < -1 THEN rotate_right(ta, current)
                   ELSE IF bf > 1 THEN rotate_left(ta, current)
                   ELSE ta,
                   bf, pre, Handed(ta.heap, current, bf))
        \* self.__rotate_left(current.left) / self.__rotate_right(current.right)
        rotate_child(t1, bf, pre) ==
            rotate_current(IF bf < -1 /\ pre
                           THEN rotate_left(t1, t1.heap[current].left)
                           ELSE IF bf > 1 /\ pre
                           THEN rotate_right(t1, t1.heap[current].right)
                           ELSE t1,
                           bf, pre)
        \* the inner `if` of each branch
        inspect_child(t1, bf, l, r) ==
            rotate_child(t1, bf,
                IF bf < -1 THEN l # None /\ balance_factor(t1.heap, l) > 0
                ELSE IF bf > 1 THEN r # None /\ balance_factor(t1.heap, r) < 0
                ELSE FALSE)
        \* bf = current.balance_factor
        measure(t1) ==
            inspect_child(t1, balance_factor(t1.heap, current),
                          t1.heap[current].left, t1.heap[current].right)
    \* self.__update_height(current)
    IN  measure([t EXCEPT !.heap = update_height(t.heap, current)])

\* the loop leaving as soon as it has rotated one node
RECURSIVE balance_loop_once(_, _)
balance_loop_once(t, current) ==
    LET advance(t1) ==
            IF t1.walk[Len(t1.walk)].rotated THEN t1
            ELSE balance_loop_once(t1, t1.heap[current].parent)
    IN  IF current = None \/ t.err # "none"
        THEN t
        ELSE advance(balance_step(t, current))

\* the loop moving on to the parent current had before the iteration
RECURSIVE balance_loop_old_parent(_, _)
balance_loop_old_parent(t, current) ==
    LET advance(t1) == balance_loop_old_parent(t1, t.heap[current].parent)
    IN  IF current = None \/ t.err # "none"
        THEN t
        ELSE advance(balance_step(t, current))

RECURSIVE balance_loop(_, _)
balance_loop(t, current) ==
    LET \* current = current.parent
        advance(t1) == balance_loop(t1, t1.heap[current].parent)
    IN  IF current = None \/ t.err # "none"
        THEN t
        ELSE advance(balance_step(t, current))

balance(t, node) == balance_loop(t, node)

----------------------------------------------------------------------------
\* insert

insert(t, value) ==
    LET inserted(b, new_node) ==
            IF ~b.ret
            THEN [t |-> b.t, ret |-> FALSE, node |-> None, case |-> "none"]
            ELSE [t |-> balance(b.t, new_node), ret |-> TRUE,
                  node |-> new_node, case |-> "none"]
        created(c) == inserted(bst_insert(c.t, c.node), c.node)
    IN  created(create_node_from_value(t, value))

----------------------------------------------------------------------------
\* __bst_remove_leaf

bst_remove_leaf(t, node) ==
    LET h == t.heap
        parent == h[node].parent
        unlink ==
            IF parent = None
            THEN [t EXCEPT !.root = None]
            ELSE IF node = h[parent].left
            THEN [t EXCEPT !.heap = [h EXCEPT ![parent].left = None]]
            ELSE [t EXCEPT !.heap = [h EXCEPT ![parent].right = None]]
    IN  IF ~(h[node].left = None /\ h[node].right = None)
        THEN [t |-> t, ret |-> None]
        ELSE [t |-> [unlink EXCEPT !.size = @ - 1], ret |-> node]

\* __bst_remove_one_child_node

\* the one-child case taking only a node whose child is on the left
bst_remove_one_child_node_left_only(t, node) ==
    LET h == t.heap
        parent == h[node].parent
        splice(child) ==
            IF parent = None
            THEN [t EXCEPT !.root = child,
                           !.heap = [h EXCEPT ![child].parent = None]]
            ELSE IF h[parent].left = node
            THEN [t EXCEPT !.heap = [h EXCEPT ![parent].left = child,
                                              ![child].parent = parent]]
            ELSE [t EXCEPT !.heap = [h EXCEPT ![parent].right = child,
                                              ![child].parent = parent]]
        spliced(t1) == [t |-> [t1 EXCEPT !.size = @ - 1], ret |-> node]
    IN  IF h[node].left = None \/ h[node].right # None
        THEN [t |-> t, ret |-> None]
        ELSE spliced(splice(h[node].left))

bst_remove_one_child_node(t, node) ==
    LET h == t.heap
        parent == h[node].parent
        splice(child) ==
            IF parent = None
            THEN [t EXCEPT !.root = child,
                           !.heap = [h EXCEPT ![child].parent = None]]
            ELSE IF h[parent].left = node
            THEN [t EXCEPT !.heap = [h EXCEPT ![parent].left = child,
                                              ![child].parent = parent]]
            ELSE [t EXCEPT !.heap = [h EXCEPT ![parent].right = child,
                                              ![child].parent = parent]]
        spliced(t1) == [t |-> [t1 EXCEPT !.size = @ - 1], ret |-> node]
    IN  IF (h[node].left = None) = (h[node].right = None)
        THEN [t |-> t, ret |-> None]
        ELSE spliced(splice(IF h[node].right = None THEN h[node].left
                            ELSE h[node].right))

\* the successor taken to be the right child, without the loop
leftmost_none(h, successor) == successor

\* the `while successor.left is not None` loop of __bst_remove_two_child_node
RECURSIVE leftmost(_, _)
leftmost(h, successor) ==
    IF h[successor].left # None THEN leftmost(h, h[successor].left)
    ELSE successor

\* __bst_remove_two_child_node

\* the two-children case decrementing size on top of the case it delegates to
bst_remove_two_child_node_twice(t, node) ==
    LET leaf(c1, successor) ==
            IF c1.ret # None THEN c1.t
            ELSE bst_remove_leaf(c1.t, successor).t
        result(t2, successor) ==
            [t |-> [t2 EXCEPT !.size = @ - 1], ret |-> successor]
        one_child(t1, successor) ==
            result(leaf(bst_remove_one_child_node(t1, successor), successor),
                   successor)
        copy(h, successor) ==
            one_child([t EXCEPT !.heap =
                         [h EXCEPT ![node].value = h[successor].value]],
                      successor)
    IN  IF t.heap[node].left = None \/ t.heap[node].right = None
        THEN [t |-> t, ret |-> None]
        ELSE copy(t.heap, leftmost(t.heap, t.heap[node].right))

\* the two-children case unlinking the successor without copying its key
bst_remove_two_child_node_nocopy(t, node) ==
    LET leaf(c1, successor) ==
            IF c1.ret # None THEN c1.t
            ELSE bst_remove_leaf(c1.t, successor).t
        result(t2, successor) == [t |-> t2, ret |-> successor]
        one_child(t1, successor) ==
            result(leaf(bst_remove_one_child_node(t1, successor), successor),
                   successor)
        copy(h, successor) == one_child(t, successor)
    IN  IF t.heap[node].left = None \/ t.heap[node].right = None
        THEN [t |-> t, ret |-> None]
        ELSE copy(t.heap, leftmost(t.heap, t.heap[node].right))

\* the `while` loop walking the other way, down the right links
RECURSIVE rightmost(_, _)
rightmost(h, predecessor) ==
    IF h[predecessor].right # None THEN rightmost(h, h[predecessor].right)
    ELSE predecessor

\* the two-children case taking the in-order predecessor, the rightmost node
\* of the left subtree, in place of the successor
bst_remove_two_child_node_predecessor(t, node) ==
    LET leaf(c1, successor) ==
            IF c1.ret # None THEN c1.t
            ELSE bst_remove_leaf(c1.t, successor).t
        result(t2, successor) == [t |-> t2, ret |-> successor]
        one_child(t1, successor) ==
            result(leaf(bst_remove_one_child_node(t1, successor), successor),
                   successor)
        copy(h, successor) ==
            one_child([t EXCEPT !.heap =
                         [h EXCEPT ![node].value = h[successor].value]],
                      successor)
    IN  IF t.heap[node].left = None \/ t.heap[node].right = None
        THEN [t |-> t, ret |-> None]
        ELSE copy(t.heap, rightmost(t.heap, t.heap[node].left))

bst_remove_two_child_node(t, node) ==
    LET \* second turn of the `for case in (...)` loop: __bst_remove_leaf
        leaf(c1, successor) ==
            IF c1.ret # None THEN c1.t
            ELSE bst_remove_leaf(c1.t, successor).t
        \* return successor
        result(t2, successor) == [t |-> t2, ret |-> successor]
        \* first turn of the loop: __bst_remove_one_child_node
        one_child(t1, successor) ==
            result(leaf(bst_remove_one_child_node(t1, successor), successor),
                   successor)
        \* node.value = successor.value
        copy(h, successor) ==
            one_child([t EXCEPT !.heap =
                         [h EXCEPT ![node].value = h[successor].value]],
                      successor)
    IN  IF t.heap[node].left = None \/ t.heap[node].right = None
        THEN [t |-> t, ret |-> None]
        ELSE copy(t.heap, leftmost(t.heap, t.heap[node].right))

\* __bst_remove: the cases are tried in the order of the `cases` list and the
\* first that returns a node wins; `case` names it.

bst_remove(t, node) ==
    LET two_child(c3) ==
            IF c3.ret # None
            THEN [t |-> c3.t, ret |-> c3.ret, case |-> "two_child"]
            ELSE [t |-> [c3.t EXCEPT !.err = "RuntimeError"],
                  ret |-> None, case |-> "none"]
        one_child(c2, node_to_remove) ==
            IF c2.ret # None
            THEN [t |-> c2.t, ret |-> c2.ret, case |-> "one_child"]
            ELSE two_child(bst_remove_two_child_node(c2.t, node_to_remove))
        leaf(c1, node_to_remove) ==
            IF c1.ret # None
            THEN [t |-> c1.t, ret |-> c1.ret, case |-> "leaf"]
            ELSE one_child(bst_remove_one_child_node(c1.t, node_to_remove),
                           node_to_remove)
        searched(node_to_remove) ==
            IF node_to_remove = None
            THEN [t |-> t, ret |-> None, case |-> "none"]
            ELSE leaf(bst_remove_leaf(t, node_to_remove), node_to_remove)
    IN  searched(search_node(t, node).searched_node)

----------------------------------------------------------------------------
\* remove

\* remove that never starts the rebalancing walk
remove_no_balance(t, value) ==
    LET removed(b) ==
            [t |-> b.t, ret |-> b.ret # None, node |-> b.ret, case |-> b.case]
        created(c) == removed(bst_remove(c.t, c.node))
    IN  created(create_node_from_value(t, value))

\* remove starting the walk at the unlinked node itself
remove_walks_from_deleted(t, value) ==
    LET removed(b, deleted_node) ==
            IF deleted_node = None
            THEN [t |-> b.t, ret |-> FALSE, node |-> None, case |-> b.case]
            ELSE IF b.t.heap[deleted_node].parent # None
            THEN [t |-> balance(b.t, deleted_node),
                  ret |-> TRUE, node |-> deleted_node, case |-> b.case]
            ELSE [t |-> b.t, ret |-> TRUE, node |-> deleted_node,
                  case |-> b.case]
        deleted(b) == removed(b, b.ret)
        created(c) == deleted(bst_remove(c.t, c.node))
    IN  created(create_node_from_value(t, value))

remove(t, value) ==
    LET removed(b, deleted_node) ==
            IF deleted_node = None
            THEN [t |-> b.t, ret |-> FALSE, node |-> None, case |-> b.case]
            ELSE IF b.t.heap[deleted_node].parent # None
            THEN [t |-> balance(b.t, b.t.heap[deleted_node].parent),
                  ret |-> TRUE, node |-> deleted_node, case |-> b.case]
            ELSE [t |-> b.t, ret |-> TRUE, node |-> deleted_node,
                  case |-> b.case]
        deleted(b) == removed(b, b.ret)
        created(c) == deleted(bst_remove(c.t, c.node))
    IN  created(create_node_from_value(t, value))

\* find

\* find that attaches the probe node when the key is absent
find_inserting(t, value) ==
    LET searched(c, search_result) ==
            [t |-> IF is_found(search_result) THEN c.t
                   ELSE bst_insert(c.t, c.node).t,
             ret |-> IF is_found(search_result)
                     THEN search_result.searched_node ELSE None,
             node |-> IF is_found(search_result)
                      THEN search_result.searched_node ELSE None,
             case |-> "none"]
        created(c) == searched(c, search_node(c.t, c.node))
    IN  created(create_node_from_value(t, value))

find(t, value) ==
    LET searched(c, search_result) ==
            [t |-> c.t,
             ret |-> IF is_found(search_result)
                     THEN search_result.searched_node ELSE None,
             node |-> IF is_found(search_result)
                      THEN search_result.searched_node ELSE None,
             case |-> "none"]
        created(c) == searched(c, search_node(c.t, c.node))
    IN  created(create_node_from_value(t, value))

----------------------------------------------------------------------------
\* Objects no reference chain from the tree's root leads to are reclaimed
\* when the method returns (the probe node of find/remove, the node of a
\* rejected insert, the node a removal unlinked).

Refs(h, n) == {h[n].left, h[n].right, h[n].parent} \ {None}

RECURSIVE Closure(_, _)
Closure(h, seen) ==
    LET grow(more) == IF more = {} THEN seen ELSE Closure(h, seen \cup more)
    IN  grow(UNION {Refs(h, n) : n \in seen} \ seen)

Collect(t) ==
    LET keep(live) == [t EXCEPT !.heap = [n \in live |-> t.heap[n]]]
    IN  keep(IF t.root = None THEN {} ELSE Closure(t.heap, {t.root}))

----------------------------------------------------------------------------
\* The state machine: one AVLTree object, driven by insert/remove/find.

Tree == [root |-> root, size |-> size, heap |-> heap, err |-> "none",
         walk |-> <<>>]

\* the object and the call's outcome once the method has returned or raised
Returned(r) ==
    LET state(c) ==
            /\ root' = c.root
            /\ size' = c.size
            /\ heap' = c.heap
            /\ err' = c.err
            /\ walk' = c.walk
    IN  /\ state(IF r.t.err = "none" THEN Collect(r.t) ELSE r.t)
        /\ lastNode' = r.node
        /\ lastCase' = r.case

\* AVLTree() : self.root = None, self.__size = 0
Init ==
    /\ root = None
    /\ size = 0
    /\ heap = [n \in {} |-> Node(0)]
    /\ err = "none"
    /\ walk = <<>>
    /\ lastOp = "init"
    /\ lastKey = 0
    /\ lastRes = FALSE
    /\ lastNode = None
    /\ lastCase = "none"
    /\ members = {}
    /\ ops = 0
    /\ script = <<>>

Insert(k) ==
    /\ err = "none"
    /\ LET returned(r) == Returned(r) /\ lastRes' = r.ret
       IN  returned(insert(Tree, k))
    /\ lastOp' = "insert"
    /\ lastKey' = k
    /\ members' = members \cup {k}

Remove(k) ==
    /\ err = "none"
    /\ LET returned(r) == Returned(r) /\ lastRes' = r.ret
       IN  returned(remove(Tree, k))
    /\ lastOp' = "remove"
    /\ lastKey' = k
    /\ members' = members \ {k}

Find(k) ==
    /\ err = "none"
    /\ LET returned(r) == Returned(r) /\ lastRes' = (r.ret # None)
       IN  returned(find(Tree, k))
    /\ lastOp' = "find"
    /\ lastKey' = k
    /\ UNCHANGED members

Next ==
    \/ \E k \in Keys : Insert(k) /\ UNCHANGED <<ops, script>>
    \/ \E k \in Keys : Remove(k) /\ UNCHANGED <<ops, script>>
    \/ \E k \in Keys : Find(k) /\ UNCHANGED <<ops, script>>

Spec == Init /\ [][Next]_vars

----------------------------------------------------------------------------
\* The same object after the calls insert(SeedKeys[1]), insert(SeedKeys[2]),
\* ... on AVLTree(), then driven by at most MaxOps further calls.

RECURSIVE Seeded(_, _)
Seeded(t, keys) ==
    LET next(t1) == IF t1.err = "none" THEN Seeded(t1, Tail(keys)) ELSE t1
    IN  IF keys = <<>> THEN t
        ELSE next(Collect(insert([t EXCEPT !.walk = <<>>], Head(keys)).t))

InitDeep ==
    LET seeded(t) ==
            /\ root = t.root
            /\ size = t.size
            /\ heap = t.heap
            /\ err = t.err
            /\ walk = t.walk
    IN  /\ seeded(Seeded([root |-> None, size |-> 0,
                          heap |-> [n \in {} |-> Node(0)],
                          err |-> "none", walk |-> <<>>], SeedKeys))
        /\ lastOp = "insert"
        /\ lastKey = SeedKeys[Len(SeedKeys)]
        /\ lastRes = TRUE
        /\ lastNode = Len(SeedKeys)
        /\ lastCase = "none"
        /\ members = {SeedKeys[i] : i \in 1..Len(SeedKeys)}
        /\ ops = 0
        /\ script = <<>>

\* one more call of the bounded run
Counted == ops < MaxOps /\ ops' = ops + 1 /\ UNCHANGED script

NextDeep ==
    \/ \E k \in DeepKeys : Insert(k) /\ Counted
    \/ \E k \in DeepKeys : Remove(k) /\ Counted
    \/ \E k \in DeepKeys : Find(k) /\ Counted

SpecDeep == InitDeep /\ [][NextDeep]_vars

----------------------------------------------------------------------------
\* The rotation primitives called on their own, on any node of the tree
\* InitDeep builds, at most MaxOps times: __rotate_left(n), __rotate_right(n).

RotateLeft(n) ==
    /\ err = "none"
    /\ Returned([t |-> rotate_left(Tree, n), node |-> n, case |-> "none"])
    /\ lastOp' = "rotate_left"
    /\ lastKey' = heap[n].value
    /\ lastRes' = (heap[n].right # None)
    /\ UNCHANGED members

RotateRight(n) ==
    /\ err = "none"
    /\ Returned([t |-> rotate_right(Tree, n), node |-> n, case |-> "none"])
    /\ lastOp' = "rotate_right"
    /\ lastKey' = heap[n].value
    /\ lastRes' = (heap[n].left # None)
    /\ UNCHANGED members

NextRotate ==
    \/ \E n \in DOMAIN heap : RotateLeft(n) /\ Counted
    \/ \E n \in DOMAIN heap : RotateRight(n) /\ Counted

SpecRotate == InitDeep /\ [][NextRotate]_vars

----------------------------------------------------------------------------
\* A driver that makes a fixed list of calls on AVLTree(), one per step:
\* script is the list and ops the number of calls made.  The lists are the
\* three insertion orders below, each followed by one more call on one of
\* its keys.

ScenarioA == <<5, 3, 8, 1, 4, 7, 9>>

ScenarioB == <<1, 2, 3, 4, 5, 6, 7>>

ScenarioC == <<10, 5, 15, 3, 7, 12, 18>>

Scenarios == {ScenarioA, ScenarioB, ScenarioC}

Call(op, key) == [op |-> op, key |-> key]

\* for value in tree_values: t.insert(value)
Inserts(keys) == [i \in 1..Len(keys) |-> Call("insert", keys[i])]

Scripts ==
    {Inserts(keys) \o <<Call(op, keys[i])>> :
        keys \in Scenarios, op \in {"insert", "remove", "find"},
        i \in DOMAIN ScenarioA}

ScriptKeys == UNION {{keys[i] : i \in 1..Len(keys)} : keys \in Scenarios}

InitRun ==
    /\ root = None
    /\ size = 0
    /\ heap = [n \in {} |-> Node(0)]
    /\ err = "none"
    /\ walk = <<>>
    /\ lastOp = "init"
    /\ lastKey = 0
    /\ lastRes = FALSE
    /\ lastNode = None
    /\ lastCase = "none"
    /\ members = {}
    /\ ops = 0
    /\ script \in Scripts

\* the next call of the list is op(k)
Scripted(op, k) ==
    /\ ops < Len(script)
    /\ script[ops + 1] = Call(op, k)
    /\ ops' = ops + 1
    /\ UNCHANGED script

NextRun ==
    \/ \E k \in ScriptKeys : Scripted("insert", k) /\ Insert(k)
    \/ \E k \in ScriptKeys : Scripted("remove", k) /\ Remove(k)
    \/ \E k \in ScriptKeys : Scripted("find", k) /\ Find(k)

SpecRun == InitRun /\ [][NextRun]_vars

----------------------------------------------------------------------------
\* Vocabulary of the properties.

RECURSIVE Down(_, _)
Down(h, seen) ==
    LET more == (UNION {{h[n].left, h[n].right} : n \in seen} \ {None}) \ seen
    IN  IF more = {} THEN seen ELSE Down(h, seen \cup more)

\* the nodes of the subtree rooted at n
Subtree(h, n) == IF n = None THEN {} ELSE Down(h, {n})

Reachable == Subtree(heap, root)

KeysOf(h, n) == {h[m].value : m \in Subtree(h, n)}

RECURSIVE TrueHeight(_, _)
TrueHeight(h, n) ==
    IF n = None THEN -1
    ELSE 1 + Max(TrueHeight(h, h[n].left), TrueHeight(h, h[n].right))

StoredHeight(h, n) == IF n = None THEN -1 ELSE h[n].height

Rotations == {i \in DOMAIN walk : walk[i].rotated}

----------------------------------------------------------------------------
\* C1: after every insert or remove, every node reachable from root has all
\* keys of its left subtree smaller and all keys of its right subtree larger
\* than its own, and no two reachable nodes hold the same key.
C1_BstOrder ==
    /\ \A n \in Reachable :
        /\ \A m \in Subtree(heap, heap[n].left) : heap[m].value < heap[n].value
        /\ \A m \in Subtree(heap, heap[n].right) : heap[m].value > heap[n].value
    /\ \A n, m \in Reachable : n # m => heap[n].value # heap[m].value

\* a two-children removal has just returned and left nodes on both sides
C1_Witness ==
    /\ lastOp = "remove" /\ lastRes /\ lastCase = "two_child"
    /\ root # None /\ heap[root].left # None /\ heap[root].right # None

\* C2: after every insert or remove, every reachable node has
\* height(right) - height(left) in {-1, 0, 1}, with the true subtree heights
\* and -1 for an absent child; also when a removal rebalances at several
\* ancestor levels.
C2_Balanced ==
    \A n \in Reachable :
        TrueHeight(heap, heap[n].right) - TrueHeight(heap, heap[n].left)
            \in {-1, 0, 1}

\* a removal whose walk rotated at two different ancestors
C2_Witness ==
    /\ lastOp = "remove" /\ lastRes
    /\ \E i, j \in Rotations : walk[i].node # walk[j].node

\* C3: after every insert or remove, the stored height of every reachable
\* node is 1 + max of the stored heights of its children (-1 for an absent
\* child); hence leaves store 0 and the stored height is the true height.
C3_StoredHeights ==
    \A n \in Reachable :
        /\ heap[n].height = 1 + Max(StoredHeight(heap, heap[n].left),
                                    StoredHeight(heap, heap[n].right))
        /\ heap[n].height = TrueHeight(heap, n)

\* a walk that rotated a node has returned, and the demoted node is not a leaf
C3_Witness ==
    \E i \in Rotations :
        /\ walk[i].node \in Reachable
        /\ heap[walk[i].node].height > 0

\* C4: after every insert or remove, the root has no parent; every other
\* reachable node is the left or the right child, not both, of its parent,
\* which is reachable; and every child of a reachable node names it as parent.
C4_ParentLinks ==
    /\ root # None => heap[root].parent = None
    /\ \A n \in Reachable \ {root} :
        LET p == heap[n].parent
        IN  /\ p \in Reachable
            /\ (heap[p].left = n) # (heap[p].right = n)
    /\ \A p \in Reachable :
        \A c \in {heap[p].left, heap[p].right} \ {None} : heap[c].parent = p

\* a rotation has handed a grandchild subtree to the demoted node
C4_Witness ==
    \E i \in Rotations :
        /\ walk[i].moved # None
        /\ walk[i].moved \in Reachable
        /\ heap[walk[i].moved].parent = walk[i].node

\* C5: size is the number of reachable nodes and of distinct keys; a call
\* changes it by +1 (insert returning true), -1 (remove returning true, the
\* two-children case included) or 0 (every other call).
C5_SizeAccounting ==
    [][LET d == IF lastOp' = "insert" /\ lastRes' THEN 1
                ELSE IF lastOp' = "remove" /\ lastRes' THEN -1
                ELSE 0
       IN  /\ size' = Cardinality(Subtree(heap', root'))
           /\ size' = Cardinality(KeysOf(heap', root'))
           /\ size' = size + d]_vars

\* a two-children removal has returned with the count one lower
C5_Witness ==
    /\ lastOp = "remove" /\ lastRes /\ lastCase = "two_child"
    /\ size = Cardinality(Reachable) /\ size >= 2

----------------------------------------------------------------------------
\* the keys of the subtree rooted at n, left to right
RECURSIVE InOrder(_, _)
InOrder(h, n) ==
    IF n = None THEN <<>>
    ELSE InOrder(h, h[n].left) \o <<h[n].value>> \o InOrder(h, h[n].right)

\* the reachable node holding key k
NodeOf(h, r, k) == CHOOSE n \in Subtree(h, r) : h[n].value = k

\* the smallest key of the tree greater than k
NextKey(h, r, k) ==
    CHOOSE x \in KeysOf(h, r) :
        x > k /\ \A y \in KeysOf(h, r) : y > k => x <= y

RotatedAt(w) == {w[i].node : i \in {j \in DOMAIN w : w[j].rotated}}

\* keys asked for: those offered to insert/remove and one beyond each end
Probes == 0..(MaxKey + 1)

\* C6: find(k) returns a node holding k exactly when k was inserted and not
\* removed since (members is the reference set); it returns nothing for keys
\* never inserted or removed again, and on the empty tree.
C6_Membership ==
    /\ \A k \in Probes :
        LET r == find(Tree, k).ret
        IN  /\ (r # None) <=> (k \in members)
            /\ r # None => r \in Reachable /\ heap[r].value = k
    /\ lastOp = "find" =>
        /\ lastRes <=> (lastKey \in members)
        /\ lastRes => lastNode \in Reachable /\ heap[lastNode].value = lastKey

\* find has just returned a node below the root
C6_Witness ==
    /\ lastOp = "find" /\ lastRes
    /\ lastNode # root /\ heap[lastNode].value = lastKey

\* C7: insert(k) returns true exactly when k is not in the tree; when it
\* returns false, root, size and every field of every node are unchanged.
C7_InsertResult ==
    [][lastOp' = "insert" =>
        /\ lastRes' <=> (lastKey' \notin KeysOf(heap, root))
        /\ lastKey' \in KeysOf(heap', root')
        /\ ~lastRes' => root' = root /\ size' = size /\ heap' = heap]_vars

\* a duplicate has just been rejected by a tree of three or more nodes
C7_Witness ==
    /\ lastOp = "insert" /\ ~lastRes
    /\ lastKey \in KeysOf(heap, root) /\ size >= 3

\* C8: remove(k) returns true exactly when k is in the tree, and then the
\* in-order key sequence is the previous one without k; when it returns
\* false, root, size and every field of every node are unchanged.
C8_RemoveResult ==
    [][lastOp' = "remove" =>
        LET old == InOrder(heap, root)
            new == InOrder(heap', root')
        IN  /\ lastRes' <=> (lastKey' \in KeysOf(heap, root))
            /\ lastRes' => /\ new = SelectSeq(old, LAMBDA x : x # lastKey')
                           /\ Len(new) = Len(old) - 1
            /\ ~lastRes' => root' = root /\ size' = size /\ heap' = heap]_vars

\* a removal that rebalanced has just returned true
C8_Witness ==
    /\ lastOp = "remove" /\ lastRes
    /\ lastKey \notin KeysOf(heap, root)
    /\ RotatedAt(walk) # {}

RECURSIVE MinNodes(_)
MinNodes(h) ==
    IF h < 0 THEN 0
    ELSE IF h = 0 THEN 1
    ELSE MinNodes(h - 1) + MinNodes(h - 2) + 1

\* C10: a tree of n >= 1 nodes and root height h has n >= N(h), where
\* N(0) = 1, N(1) = 2, N(h) = N(h-1) + N(h-2) + 1 (the integer form of
\* h <= 1.44 * log2(n + 2)).
C10_HeightBound ==
    root # None =>
        /\ Cardinality(Reachable) >= MinNodes(TrueHeight(heap, root))
        /\ size >= MinNodes(heap[root].height)

\* a removal from the 12-node tree of height 4 has brought the height to 3
C10_Witness ==
    /\ lastOp = "remove" /\ lastRes
    /\ size = MinNodes(4) - 1
    /\ TrueHeight(heap, root) = 3

----------------------------------------------------------------------------
\* the driver's list starts with the inserts of keys
Starts(keys) ==
    /\ Len(script) >= Len(keys)
    /\ SubSeq(script, 1, Len(keys)) = Inserts(keys)

\* C11: inserting 1,2,3,4,5,6,7 in this order into an empty tree: every
\* insert returns true, and after the seventh the size is 7, the root holds
\* 4 and the root's height, stored and true, is 2.
C11_ScenarioB ==
    [][(Starts(ScenarioB) /\ ops < Len(ScenarioB)) =>
        /\ lastOp' = "insert" /\ lastKey' = ScenarioB[ops']
        /\ lastRes'
        /\ size' = ops'
        /\ ops' = Len(ScenarioB) =>
            /\ size' = 7
            /\ heap'[root'].value = 4
            /\ heap'[root'].height = 2
            /\ TrueHeight(heap', root') = 2
            /\ InOrder(heap', root') = ScenarioB]_vars

\* the seventh insert of 1..7 has returned, having rotated a node to the left
C11_Witness ==
    /\ Starts(ScenarioB) /\ ops = Len(ScenarioB)
    /\ lastOp = "insert" /\ lastKey = 7 /\ lastRes
    /\ \E i \in Rotations : walk[i].bf > 1

\* C12: after the inserts 10,5,15,3,7,12,18 into an empty tree, remove(10)
\* returns true, the root is still the node that held 10 and now holds 12,
\* size goes from 7 to 6 and the in-order traversal is 3,5,7,12,15,18.
C12_ScenarioC ==
    [][(Starts(ScenarioC) /\ ops = Len(ScenarioC)
            /\ script[ops + 1] = Call("remove", 10)) =>
        /\ heap[root].value = 10 /\ size = 7
        /\ lastOp' = "remove" /\ lastKey' = 10
        /\ lastRes'
        /\ root' = root
        /\ heap'[root'].value = 12
        /\ size' = 6
        /\ InOrder(heap', root') = <<3, 5, 7, 12, 15, 18>>]_vars

\* remove(10) has returned after the seven inserts, by the two-children case
C12_Witness ==
    /\ Starts(ScenarioC) /\ ops = Len(ScenarioC) + 1
    /\ lastOp = "remove" /\ lastKey = 10 /\ lastRes
    /\ lastCase = "two_child"
    /\ 10 \notin KeysOf(heap, root)

----------------------------------------------------------------------------
\* C13: find(k), for k present or absent, leaves root, size and every field
\* of every node as they were and raises nothing; on the empty tree it
\* returns nothing.
C13_FindFrame ==
    [][lastOp' = "find" =>
        /\ root' = root
        /\ size' = size
        /\ heap' = heap
        /\ err' = "none"
        /\ root = None => ~lastRes' /\ lastNode' = None]_vars

\* find has just returned nothing for a key absent from a tree of three or
\* more nodes
C13_Witness ==
    /\ lastOp = "find" /\ ~lastRes /\ lastNode = None
    /\ size >= 3 /\ lastKey \notin KeysOf(heap, root)

----------------------------------------------------------------------------
\* the tree as the plain BST step of the call op(k) leaves it, before any
\* rebalancing walk
Plain(op, k) ==
    LET mutated(c) ==
            Collect(IF op = "insert" THEN bst_insert(c.t, c.node).t
                    ELSE bst_remove(c.t, c.node).t)
    IN  mutated(create_node_from_value(Tree, k))

\* the keys and links of every node, heights left out
Links(h) ==
    [n \in DOMAIN h |-> [value |-> h[n].value, parent |-> h[n].parent,
                         left |-> h[n].left, right |-> h[n].right]]

\* a successful insert or remove leaves the shape of the plain BST step
\* exactly when no node visited by its walk had a balance factor beyond 1
RotatesBeyondOne ==
    (lastOp' \in {"insert", "remove"} /\ lastRes') =>
        LET plain == Plain(lastOp', lastKey')
        IN  (\A i \in DOMAIN walk' : walk'[i].bf \in {-1, 0, 1})
                <=> (root' = plain.root /\ Links(heap') = Links(plain.heap))

\* C14: the walk changes the shape the plain BST step left only when a
\* visited node's balance factor, read after its height update, is below -1
\* or above 1; otherwise the final shape is the plain one.  Inserting
\* 5,3,8,1,4,7,9 in this order meets no such node, and leaves root 5 and the
\* in-order traversal 1,3,4,5,7,8,9.
C14_ScenarioA ==
    [][/\ RotatesBeyondOne
       /\ (Starts(ScenarioA) /\ ops < Len(ScenarioA)) =>
            /\ lastOp' = "insert" /\ lastRes'
            /\ \A i \in DOMAIN walk' : walk'[i].bf \in {-1, 0, 1}
            /\ heap'[root'].value = 5
            /\ ops' = Len(ScenarioA) =>
                InOrder(heap', root') = <<1, 3, 4, 5, 7, 8, 9>>]_vars

\* the seventh insert of 5,3,8,1,4,7,9 has returned after a walk over the
\* new leaf, its parent and the root
C14_Witness ==
    /\ Starts(ScenarioA) /\ ops = Len(ScenarioA)
    /\ lastOp = "insert" /\ lastKey = 9 /\ lastRes
    /\ Len(walk) = 3 /\ walk[3].node = root
    /\ heap[root].value = 5

----------------------------------------------------------------------------
\* every stored height in the subtree rooted at n is the true height
HeightsCorrect(h, n) == \A m \in Subtree(h, n) : h[m].height = TrueHeight(h, m)

\* what the rotation of node n, promoting its child c and handing c's
\* subtree g to n, must leave; other is c's child that stays with c
Rotated(n, c, g, other) ==
    LET p == heap[n].parent
    IN  /\ err' = "none"
        /\ size' = size
        /\ InOrder(heap', root') = InOrder(heap, root)
        /\ Subtree(heap', root') = Subtree(heap, root)
        /\ DOMAIN heap' = DOMAIN heap
        \* the promoted child is in the slot n had
        /\ heap'[c].parent = p
        /\ p = None => root' = c
        /\ p # None =>
            /\ root' = root
            /\ heap[p].left = n =>
                heap'[p].left = c /\ heap'[p].right = heap[p].right
            /\ heap[p].left # n =>
                heap'[p].right = c /\ heap'[p].left = heap[p].left
        \* n is the child of c on the side g was
        /\ heap'[n].parent = c
        /\ {heap'[c].left, heap'[c].right} = {n, other}
        \* g is the child of n on the side c was
        /\ g # None => heap'[g].parent = n
        /\ {heap'[n].left, heap'[n].right} \cup {n}
               = ({heap[n].left, heap[n].right, g} \ {c}) \cup {n}
        \* nothing else is touched
        /\ \A m \in DOMAIN heap \ {n, c, g, p} : heap'[m] = heap[m]
        \* heights of the demoted node and of the promoted child
        /\ (/\ HeightsCorrect(heap', heap'[n].left)
            /\ HeightsCorrect(heap', heap'[n].right)
            /\ HeightsCorrect(heap', other)) =>
                /\ heap'[n].height = TrueHeight(heap', n)
                /\ heap'[c].height = TrueHeight(heap', c)

\* C15: rotate-left and rotate-right on a node that has the required child
\* keep the in-order key sequence and the set of reachable nodes; the
\* promoted child takes the rotated node's parent slot (or becomes root),
\* the transferred grandchild subtree is re-parented to the demoted node,
\* and the stored heights of the demoted node and of the promoted child are
\* correct when the heights beneath them are.
C15_Rotations ==
    [][/\ (lastOp' = "rotate_left" /\ heap[lastNode'].right # None) =>
            LET c == heap[lastNode'].right
            IN  /\ Rotated(lastNode', c, heap[c].left, heap[c].right)
                /\ heap'[c].left = lastNode'
                /\ heap'[lastNode'].right = heap[c].left
                /\ heap'[lastNode'].left = heap[lastNode'].left
       /\ (lastOp' = "rotate_right" /\ heap[lastNode'].left # None) =>
            LET c == heap[lastNode'].left
            IN  /\ Rotated(lastNode', c, heap[c].right, heap[c].left)
                /\ heap'[c].right = lastNode'
                /\ heap'[lastNode'].left = heap[c].right
                /\ heap'[lastNode'].right = heap[lastNode'].right]_vars

\* a rotation to the right of a node below the root has handed it a
\* grandchild subtree, and the heights at and beneath the promoted child are
\* correct
C15_Witness ==
    /\ lastOp = "rotate_right" /\ lastRes /\ err = "none"
    /\ heap[lastNode].left # None
    /\ heap[heap[lastNode].left].parent = lastNode
    /\ heap[heap[lastNode].parent].parent # None
    /\ HeightsCorrect(heap, heap[lastNode].parent)

----------------------------------------------------------------------------
\* The walk of the call op(k), iteration by iteration: the node the walk
\* starts at after the plain BST step, and for every iteration the tree
\* before it, the node visited and the tree after it.

WalkStart(op, k) ==
    LET inserted(b, node) ==
            [t |-> b.t, at |-> IF b.ret THEN node ELSE None]
        removed(b) ==
            [t |-> b.t,
             at |-> IF b.ret = None THEN None ELSE b.t.heap[b.ret].parent]
        created(c) ==
            IF op = "insert" THEN inserted(bst_insert(c.t, c.node), c.node)
            ELSE removed(bst_remove(c.t, c.node))
    IN  created(create_node_from_value(Tree, k))

RECURSIVE Trail(_, _)
Trail(t, current) ==
    LET step(t1) ==
            <<[before |-> t, at |-> current, after |-> t1]>>
                \o Trail(t1, t1.heap[current].parent)
    IN  IF current = None \/ t.err # "none" THEN <<>>
        ELSE step(balance_step(t, current))

TrailOf(op, k) ==
    LET started(s) == Trail(s.t, s.at)
    IN  started(WalkStart(op, k))

\* the balance factor the iteration s reads at its node, after the height
\* update, and the one it reads at that node's child c
ReadAt(s) == balance_factor(update_height(s.before.heap, s.at), s.at)

ReadAtChild(s, c) == balance_factor(update_height(s.before.heap, s.at), c)

HeavyChild(s) ==
    IF ReadAt(s) < 0 THEN s.before.heap[s.at].left
    ELSE s.before.heap[s.at].right

\* every node of the subtree rooted at n has a balance factor in {-1,0,1}
\* by true heights, and a true stored height
SubtreeSound(h, n) ==
    \A m \in Subtree(h, n) :
        /\ TrueHeight(h, h[m].right) - TrueHeight(h, h[m].left) \in {-1, 0, 1}
        /\ h[m].height = TrueHeight(h, m)

\* iteration s met a balance factor beyond 1 at its node and exactly 0 at
\* the child on the heavy side
TieBreak(s) ==
    /\ ReadAt(s) \notin {-1, 0, 1}
    /\ HeavyChild(s) # None
    /\ ReadAtChild(s, HeavyChild(s)) = 0

\* iteration s rotated its node once and nothing else: the heavy child c is
\* promoted into the node's slot and keeps its own outer child
SingleRotation(s, c) ==
    /\ s.after.err = "none"
    /\ s.after.heap[s.at].parent = c
    /\ s.after.heap[c].parent = s.before.heap[s.at].parent
    /\ ReadAt(s) < 0 =>
        /\ s.after.heap[c].right = s.at
        /\ s.after.heap[c].left = s.before.heap[c].left
        /\ s.after.heap[s.at].left = s.before.heap[c].right
    /\ ReadAt(s) > 0 =>
        /\ s.after.heap[c].left = s.at
        /\ s.after.heap[c].right = s.before.heap[c].right
        /\ s.after.heap[s.at].right = s.before.heap[c].left

\* C16: when the walk meets a node with balance factor below -1 whose left
\* child has balance factor 0, or above 1 whose right child has 0, it does
\* no rotation at the child and one single rotation at the node, after
\* which every node of the subtree rooted at the promoted child has a
\* balance factor in {-1,0,1} and a correct stored height; either case is
\* met only in the walk of a removal.
C16_TieBreak ==
    [][(lastOp' \in {"insert", "remove"} /\ lastRes') =>
        LET checked(trail) ==
                \A i \in DOMAIN trail :
                    TieBreak(trail[i]) =>
                        /\ lastOp' = "remove"
                        /\ walk'[i].node = trail[i].at
                        /\ walk'[i].rotated /\ ~walk'[i].double
                        /\ SingleRotation(trail[i], HeavyChild(trail[i]))
                        /\ SubtreeSound(trail[i].after.heap,
                                        HeavyChild(trail[i]))
        IN  checked(TrailOf(lastOp', lastKey'))]_vars

\* a removal has returned whose walk rotated a node once, to the right, over
\* a left child that leaned to neither side: the node is now the right
\* child and leans left by one, the promoted child leans right by one
C16_Witness ==
    /\ lastOp = "remove" /\ lastRes
    /\ \E i \in Rotations :
        /\ walk[i].bf < -1 /\ ~walk[i].double
        /\ walk[i].node \in Reachable
        /\ balance_factor(heap, walk[i].node) = -1
        /\ heap[heap[walk[i].node].parent].right = walk[i].node
        /\ balance_factor(heap, heap[walk[i].node].parent) = 1

----------------------------------------------------------------------------
\* iteration s changed nothing but the stored height of its node
HeightOnly(s) ==
    /\ s.after.root = s.before.root
    /\ s.after.heap
         = [s.before.heap EXCEPT ![s.at].height = s.after.heap[s.at].height]

\* the iterations of a walk that changed a link, the root or another node
Sites(trail) == {i \in DOMAIN trail : ~HeightOnly(trail[i])}

\* C17: the walk of a successful insert rotates (once or twice, at the same
\* node) in at most one of its iterations; every other iteration, the one
\* at the promoted node right after the rotation included, changes nothing
\* but the stored height of its node.
C17_OneRotationSite ==
    [][(lastOp' = "insert" /\ lastRes') =>
        LET checked(trail, sites) ==
                /\ Len(walk') = Len(trail)
                /\ Cardinality(sites) <= 1
                /\ sites = {i \in DOMAIN walk' : walk'[i].rotated}
                /\ \A i \in sites :
                    /\ ReadAt(trail[i]) \notin {-1, 0, 1}
                    /\ i + 1 \in DOMAIN trail
                    /\ trail[i + 1].at
                          = trail[i].after.heap[trail[i].at].parent
                    /\ trail[i + 1].at
                          # trail[i].before.heap[trail[i].at].parent
                    /\ HeightOnly(trail[i + 1])
            replayed(trail) == checked(trail, Sites(trail))
        IN  replayed(TrailOf("insert", lastKey'))]_vars

\* an insert has returned whose walk rotated a node below the root and then
\* visited the promoted node and at least one more ancestor
C17_Witness ==
    /\ lastOp = "insert" /\ lastRes
    /\ \E i \in Rotations :
        /\ i + 2 \in DOMAIN walk
        /\ walk[i + 1].node = heap[walk[i].node].parent
        /\ ~walk[i + 1].rotated /\ ~walk[i + 2].rotated

----------------------------------------------------------------------------
\* the number of links between the root r and node n, found from the root
\* down by the keys
RECURSIVE DepthFrom(_, _, _)
DepthFrom(h, r, n) ==
    IF r = n THEN 0
    ELSE IF h[n].value < h[r].value THEN 1 + DepthFrom(h, h[r].left, n)
    ELSE 1 + DepthFrom(h, h[r].right, n)

Depth(t, n) == DepthFrom(t.heap, t.root, n)

\* the node the walk visits after iteration s, None when the walk is over
Onward(s) == s.after.heap[s.at].parent

\* C18 as stated: every iteration of the walk, rotating or not, moves to a
\* node strictly closer to the root than the node it visited was, so the
\* loop ends after at most (depth of the start node + 1) iterations with
\* no current node, and the insert or remove returns.
C18_DepthPlusOne ==
    [][(lastOp' \in {"insert", "remove"} /\ lastRes') =>
        LET checked(s, trail) ==
                /\ err' = "none"
                /\ Len(walk') = Len(trail)
                /\ \A i \in DOMAIN trail :
                    /\ walk'[i].node = trail[i].at
                    /\ Onward(trail[i]) # None =>
                        Depth(trail[i].after, Onward(trail[i]))
                            < Depth(trail[i].before, trail[i].at)
                    /\ Onward(trail[i]) = None <=> i = Len(trail)
                /\ s.at # None => Len(trail) <= Depth(s.t, s.at) + 1
            started(s) == checked(s, Trail(s.t, s.at))
        IN  started(WalkStart(lastOp', lastKey'))]_vars

\* C18 amended: an iteration that does not rotate moves to a node one link
\* closer to the root than the node it visited; an iteration that rotates
\* moves to the promoted node, which is where the rotated node was; so the
\* loop ends after at most (depth of the start node + 1 + number of
\* rotating iterations) iterations with no current node, the last node
\* visited being the root, and the insert or remove returns.
C18_WalkTerminates ==
    [][(lastOp' \in {"insert", "remove"} /\ lastRes') =>
        LET moved(s, onward) ==
                IF HeightOnly(s)
                THEN onward # None =>
                        Depth(s.after, onward) = Depth(s.before, s.at) - 1
                ELSE /\ onward # None
                     /\ Depth(s.after, onward) = Depth(s.before, s.at)
                     /\ Depth(s.after, s.at) = Depth(s.before, s.at) + 1
            checked(s, trail) ==
                /\ err' = "none"
                /\ Len(walk') = Len(trail)
                /\ \A i \in DOMAIN trail :
                    /\ walk'[i].node = trail[i].at
                    /\ moved(trail[i], Onward(trail[i]))
                    /\ Onward(trail[i]) = None <=> i = Len(trail)
                /\ s.at # None =>
                    /\ Len(trail)
                         <= Depth(s.t, s.at) + 1 + Cardinality(Sites(trail))
                    /\ trail[Len(trail)].at = root'
            started(s) == checked(s, Trail(s.t, s.at))
        IN  started(WalkStart(lastOp', lastKey'))]_vars

\* a removal has returned whose walk rotated in two iterations and made
\* four, the last one at the root
C18_Witness ==
    /\ lastOp = "remove" /\ lastRes /\ err = "none"
    /\ Cardinality(Rotations) = 2
    /\ Len(walk) = 4
    /\ walk[Len(walk)].node = root

----------------------------------------------------------------------------
\* the removal cases that return a node when tried on node n
Applying(n) ==
    {c \in {"leaf", "one_child", "two_child"} :
        \/ c = "leaf" /\ bst_remove_leaf(Tree, n).ret # None
        \/ c = "one_child" /\ bst_remove_one_child_node(Tree, n).ret # None
        \/ c = "two_child" /\ bst_remove_two_child_node(Tree, n).ret # None}

\* the two-children case on n has unlinked the successor it returns, by the
\* one-child or the leaf case
SuccessorUnlinked(n) ==
    LET unlinked(r, successor) ==
            /\ r.ret = successor
            /\ successor \notin Subtree(r.t.heap, r.t.root)
            /\ r.t.size = size - 1
            /\ \/ bst_remove_one_child_node(Tree, successor).ret = successor
               \/ bst_remove_leaf(Tree, successor).ret = successor
    IN  unlinked(bst_remove_two_child_node(Tree, n),
                 leftmost(heap, heap[n].right))

\* C19: no sequence of insert/remove/find calls from the empty tree raises
\* the dispatcher's RuntimeError or a rotation's TypeError; for every node a
\* removal can find, exactly one of the leaf, one-child and two-children
\* cases applies, and the two-children case always unlinks the successor.
C19_NoInternalError ==
    /\ err = "none"
    /\ \A n \in Reachable :
        /\ Cardinality(Applying(n)) = 1
        /\ Applying(n) = {"two_child"} => SuccessorUnlinked(n)
    /\ (lastOp = "remove" /\ lastRes) => lastCase \in {"leaf", "one_child", "two_child"}

\* a removal has returned after its walk rotated a child and then the node
C19_Witness ==
    /\ lastOp = "remove" /\ lastRes /\ err = "none"
    /\ lastCase \in {"leaf", "one_child", "two_child"}
    /\ \E i \in Rotations : walk[i].double

----------------------------------------------------------------------------
\* C20: at every node the rebalancing walk of an insert or remove visits,
\* the balance factor read right after the height update is one of
\* -2, -1, 0, 1, 2.
C20_WithinTwo ==
    \A i \in DOMAIN walk : walk[i].bf \in {-2, -1, 0, 1, 2}

\* a removal has returned whose walk read 2 or -2 at two of the nodes it
\* visited
C20_Witness ==
    /\ lastOp = "remove" /\ lastRes
    /\ \E i, j \in DOMAIN walk :
        /\ i # j
        /\ walk[i].bf \in {-2, 2}
        /\ walk[j].bf \in {-2, 2}

====
